---- MODULE Spec2Model ----
(***************************************************************************)
(* A model of up_patty.PattyPlanner: the _solve adapter that runs the      *)
(* Patty planner as a child process, drains its two output pipes on two    *)
(* daemon threads, waits for it with an optional timeout, reads the plan   *)
(* file it saved, parses it and validates the plan.                        *)
(*                                                                         *)
(* Text is modelled as sequences of one-character strings, so that strip,  *)
(* split, join and decode are computed rather than assumed.                *)
(***************************************************************************)
EXTENDS Integers, Sequences, FiniteSets, TLC

\* ------------------------------------------------------------------ bounds
MaxInvocations == 2   \* _solve calls made on the one planner instance
MaxArgs == 2          \* entries of the caller's args mapping
MaxOut == 2           \* lines the child writes to its two pipes
PipeCap == 1          \* lines an OS pipe buffer holds before a write blocks
MaxText == 3          \* characters of an action text in a generated plan file
MaxPlanLines == 2     \* lines of a generated plan file

\* ------------------------------------------------------- python: str, list
IsWs(c) == c \in {" ", "\n", "\t"}

RECURSIVE LStrip(_)
LStrip(s) == IF s # <<>> /\ IsWs(Head(s)) THEN LStrip(Tail(s)) ELSE s

RECURSIVE RStrip(_)
RStrip(s) ==
    IF s # <<>> /\ IsWs(s[Len(s)]) THEN RStrip(SubSeq(s, 1, Len(s) - 1)) ELSE s

\* str.strip(): leading and trailing whitespace removed
Strip(s) == LStrip(RStrip(s))

StartsAt(s, i, p) ==
    /\ i + Len(p) - 1 <= Len(s)
    /\ SubSeq(s, i, i + Len(p) - 1) = p

Contains(s, p) == \E i \in 1..(Len(s) + 1) : StartsAt(s, i, p)

\* str.find(p) + 1: the first position p occurs at, 0 when it does not occur
Find(s, p) ==
    IF Contains(s, p)
    THEN CHOOSE i \in 1..(Len(s) + 1) :
            /\ StartsAt(s, i, p)
            /\ \A j \in 1..(i - 1) : ~StartsAt(s, j, p)
    ELSE 0

\* str.split(sep): cut at every occurrence of sep, left to right
RECURSIVE Split(_, _)
Split(s, sep) ==
    LET i == Find(s, sep) IN
    IF i = 0 THEN <<s>>
    ELSE <<SubSeq(s, 1, i - 1)>> \o Split(SubSeq(s, i + Len(sep), Len(s)), sep)

\* sep.join(parts)
RECURSIVE Join(_, _)
Join(sep, parts) ==
    IF parts = <<>> THEN <<>>
    ELSE IF Len(parts) = 1 THEN parts[1]
    ELSE parts[1] \o sep \o Join(sep, Tail(parts))

\* f"{n}": the decimal text of an integer
DigitChars == <<"0", "1", "2", "3", "4", "5", "6", "7", "8", "9">>

RECURSIVE NatStr(_)
NatStr(n) ==
    IF n < 10 THEN <<DigitChars[n + 1]>>
    ELSE NatStr(n \div 10) \o <<DigitChars[(n % 10) + 1]>>

IntStr(n) == IF n < 0 THEN <<"-">> \o NatStr(0 - n) ELSE NatStr(n)

\* ----------------------------------------------------------- python: dict
\* A dict is the sequence of its <<key, value>> items in insertion order.
DictHas(d, k) == \E i \in 1..Len(d) : d[i][1] = k

DictGet(d, k, default) ==
    IF DictHas(d, k) THEN d[CHOOSE i \in 1..Len(d) : d[i][1] = k][2] ELSE default

DictPop(d, k) == SelectSeq(d, LAMBDA it : it[1] # k)

\* list(chain.from_iterable([[k, v] for k, v in d.items()]))
RECURSIVE ChainItems(_)
ChainItems(d) ==
    IF d = <<>> THEN <<>> ELSE <<Head(d)[1], Head(d)[2]>> \o ChainItems(Tail(d))

\* ------------------------------------------------------------ the values
None == <<>>          \* Python's None; Some(x) is a value that is present
Some(x) == <<x>>

SEP == <<":", " ">>   \* the ': ' the plan file's lines are split on

Channels == {"stdout", "stderr"}

\* what the caller may pass as options['args']: flag -> value, in order
Flags == {"--save-plan", "-a", "-b"}
FlagValue(k) == IF k = "--save-plan" THEN "user.dump" ELSE IF k = "-a" THEN "1" ELSE "2"

RECURSIVE Mappings(_)
Mappings(n) ==
    IF n = 0 THEN {<<>>}
    ELSE LET shorter == Mappings(n - 1) IN
         shorter \cup
         {Append(d, <<k, FlagValue(k)>>) :
            d \in {m \in shorter : Len(m) = n - 1}, k \in Flags}

ArgMappings ==
    {d \in Mappings(MaxArgs) : \A i, j \in 1..Len(d) : d[i][1] = d[j][1] => i = j}

\* exit statuses Popen.wait can report: 0, failures, and -N for death by signal N
ExitCodes == {0, 1, 11, -11}
SIGKILL == 9

\* byte lines the child may write to a pipe; "xFF" is a byte that is not UTF-8
OutLines == {<<"a", "\n">>, <<"b", " ", "\n">>, <<" ", "\n">>, <<"xFF", "\n">>}

\* bytes.decode('utf-8', errors='replace')
Decode(bytes) ==
    [i \in 1..Len(bytes) |-> IF bytes[i] = "xFF" THEN "U+FFFD" ELSE bytes[i]]

\* mutant: both threads are started with the empty prefix
PrefixEmpty(ch) == <<>>

\* the prefix each draining thread is started with
\* (threading.Thread(target=self._stream_output, args=(pipe, prefix)))
Prefix(ch) ==
    IF ch = "stderr" THEN <<"E", "R", "R", "O", "R", ":", " ">> ELSE <<>>

\* the lines open(plan_dump_file).readlines() may return (None: open() raises)
PlanFiles ==
    { None,
      Some(<<>>),
      Some(<< <<"0", ":", " ", "a", "\n">> >>),
      Some(<< <<"0", ":", " ", "a", "\n">>, <<"1", ":", " ", "b", " ", "c", "\n">> >>),
      Some(<< <<"0", ":", " ", "a", ":", " ", "b", "\n">> >>),
      Some(<< <<"0", ":", " ", "a", "\n">>, <<"\n">> >>),
      Some(<< <<"0", ":", "a", "\n">> >>),
      Some(<< <<"a", "\n">>, <<"1", ":", " ", "b", "\n">> >>) }

\* plan files of well-formed lines "<i>: <text_i>": the ordinal i, the
\* separator, an action text and the line end. A text is one to MaxText tokens,
\* each a letter or a ': ', and does not end in whitespace.
TextTokens == {<<"a">>, SEP}

RECURSIVE TokenStrings(_)
TokenStrings(n) ==
    IF n = 0 THEN {<<>>}
    ELSE LET shorter == TokenStrings(n - 1) IN
         shorter \cup {t \o s : t \in TextTokens, s \in shorter}

ActionTexts == {s \in TokenStrings(MaxText) : s # <<>> /\ s[Len(s)] = "a"}

WellFormedLine(i, text) == IntStr(i - 1) \o SEP \o text \o <<"\n">>

WellFormedFiles ==
    UNION {{[i \in 1..n |-> WellFormedLine(i, texts[i])] :
              texts \in [1..n -> ActionTexts]} : n \in 0..MaxPlanLines}

\* ---------------------------------------------------------------- state
VARIABLES
    options,        \* the args mapping the planner was constructed with
    args,           \* self._args
    invocation,     \* how many _solve calls have been started
    timeout,        \* _solve's timeout argument: None or Some("deadline")
    pc,             \* where the thread running _solve is
    tmpdir,         \* the TemporaryDirectory: "none", "exists", "removed"
    entry_args,     \* self._args as it was when this _solve call began
    plan_dump_file, \* local of _solve
    command,        \* local of _solve
    child,          \* the child process: [state, exitcode, written]
    return_code,    \* local of _solve: None until process.wait returns
    pipe,           \* per channel: [buf, wopen, rclosed, sent]; sent is the
                    \* history of the lines the child wrote into the pipe
    thread,         \* per channel: [pc, line_str] of the draining thread
    echo,           \* what the draining threads have written to sys.stdout
    actions,        \* local of _solve: the lines read from the plan file
    plan_string,    \* the text handed to parse_plan_string, None before
    parsed_plan,    \* what parse_plan_string returned
    final_plan,     \* local of _solve
    result_log_messages, \* local of _solve
    exc,            \* the exception being handled by the top-level except
    outcome,        \* the PlanGenerationResult returned, None before
    calls           \* the collaborators called so far in this invocation

planVars == <<actions, plan_string, parsed_plan, final_plan, result_log_messages>>
streamVars == <<pipe, thread, echo>>
cmdVars == <<entry_args, plan_dump_file, command>>
vars == <<options, args, invocation, timeout, pc, tmpdir, cmdVars, child,
          return_code, streamVars, planVars, exc, outcome, calls>>

NoChild == [state |-> "none", exitcode |-> 0, written |-> 0]
NoPipe == [buf |-> <<>>, wopen |-> FALSE, rclosed |-> FALSE, sent |-> <<>>]
NoThread == [pc |-> "unstarted", line_str |-> <<>>]

Init ==
    /\ options \in ArgMappings
    /\ args = options
    /\ invocation = 0
    /\ timeout = None
    /\ pc = "idle"
    /\ tmpdir = "none"
    /\ entry_args = <<>>
    /\ plan_dump_file = None
    /\ command = <<>>
    /\ child = NoChild
    /\ return_code = None
    /\ pipe = [ch \in Channels |-> NoPipe]
    /\ thread = [ch \in Channels |-> NoThread]
    /\ echo = <<>>
    /\ actions = None
    /\ plan_string = None
    /\ parsed_plan = None
    /\ final_plan = None
    /\ result_log_messages = <<>>
    /\ exc = None
    /\ outcome = None
    /\ calls = <<>>

\* ------------------------------------------------- _solve: pure helpers
TmpPath(name) == "TMP/" \o name      \* os.path.join(tmpdirname, name)

\* self._args.get('--save-plan', os.path.join(tmpdirname, "plan.dump"))
PlanDumpFile(a) == DictGet(a, "--save-plan", TmpPath("plan.dump"))

\* mutant: the pop is missing
PopNothing(a) == a

\* if '--save-plan' in self._args: self._args.pop('--save-plan')
PopSavePlan(a) == IF DictHas(a, "--save-plan") THEN DictPop(a, "--save-plan") ELSE a

\* command = ['python', executable, '-o', ..., '--save-plan', file]; command += ...
Command(file, a) ==
    <<"python", "patty/main.py", "-o", TmpPath("domain.pddl"),
      "-f", TmpPath("problem.pddl"), "--save-plan", file>> \o ChainItems(a)

\* mutant: the directory is made with mkdtemp and never removed
TmpDirKept(d) == d

\* TemporaryDirectory.__exit__: what leaving the with block does to the directory
TmpDirExit(d) == IF d = "exists" THEN "removed" ELSE d

LogMessage(level, message) == [level |-> level, message |-> message]

PlanGenerationResult(status, plan, log_messages) ==
    [status |-> status, plan |-> plan, engine_name |-> "patty",
     log_messages |-> log_messages]

SEGV_NOTE == <<" - The error might be a segmentation fault (SIGSEGV).">>

\* mutant: the segmentation-fault test compares with 11 instead of -11
ErrorMsgUnsigned(rc) ==
    <<"The planner failed with return code ">> \o IntStr(rc) \o <<".">>
      \o (IF rc = 11 THEN SEGV_NOTE ELSE <<>>)

\* error_msg of the return_code != 0 branch
ErrorMsg(rc) ==
    <<"The planner failed with return code ">> \o IntStr(rc) \o <<".">>
      \o (IF rc = -11 THEN SEGV_NOTE ELSE <<>>)

TimeoutResult ==
    PlanGenerationResult("TIMEOUT", None,
                         <<LogMessage("INFO", <<"Planner timed out.">>)>>)

FailedResult(rc) ==
    PlanGenerationResult("INTERNAL_ERROR", None,
                         <<LogMessage("ERROR", ErrorMsg(rc))>>)

\* the except Exception branch: str(e) becomes the one log message
ExceptResult(e) ==
    PlanGenerationResult("INTERNAL_ERROR", None, <<LogMessage("ERROR", e.msg)>>)

\* mutant: the solved outcome is built without the plan
SolvedResultWithoutPlan(plan, logs) ==
    PlanGenerationResult("SOLVED_SATISFICING", None, logs)

SolvedResult(plan, logs) == PlanGenerationResult("SOLVED_SATISFICING", plan, logs)

VALIDATION_WARNING ==
    LogMessage("WARNING", <<"Plan validation failed - the plan may not be correct">>)

\* mutant: the last piece is taken ([-1]), which never raises
ActionTextLast(a) ==
    LET parts == Split(Strip(a), SEP) IN Some(parts[Len(parts)])

\* lambda a: a.strip().split(': ')[1]   (None: the index raises IndexError)
ActionText(a) ==
    LET parts == Split(Strip(a), SEP) IN
    IF Len(parts) >= 2 THEN Some(parts[2]) ELSE None

\* '\n'.join(map(lambda ..., actions))   (None: some line raised IndexError)
PlanString(lines) ==
    IF \E i \in 1..Len(lines) : ActionText(lines[i]) = None THEN None
    ELSE Some(Join(<<"\n">>, [i \in 1..Len(lines) |-> ActionText(lines[i])[1]]))

\* PDDLReader().parse_plan_string: one action instance per line of the text
ParsePlanString(text) == IF text = <<>> THEN <<>> ELSE Split(text, <<"\n">>)

\* mutant: only an INVALID verdict counts as a failed validation
ValidatePlanUnlessInvalid(verdict) == verdict # "INVALID"

\* what _validate_plan returns, given what the validator did
ValidatePlan(verdict) == verdict = "VALID"

ValidatorBehaviours == {"VALID", "INVALID", "UNKNOWN", "unavailable", "raises"}

\* -------------------------------------------------------- _solve: steps
Called(op, result) == calls' = Append(calls, <<op, result>>)

\* an exception raised inside the with block: the block is left (the directory
\* is cleaned up) and control reaches the top-level except Exception
Raise(by, msg) ==
    /\ exc' = Some([by |-> by, msg |-> msg])
    /\ tmpdir' = TmpDirExit(tmpdir)
    /\ Called(by, "raises")
    /\ pc' = "except"

\* a call of _solve(problem, timeout=t) on the planner
Solve(t) ==
    /\ pc \in {"idle", "returned"}
    /\ invocation < MaxInvocations
    /\ invocation' = invocation + 1
    /\ timeout' = t
    /\ pc' = "tmpdir"
    /\ tmpdir' = "none"
    /\ entry_args' = args
    /\ plan_dump_file' = None
    /\ command' = <<>>
    /\ child' = NoChild
    /\ return_code' = None
    /\ pipe' = [ch \in Channels |-> NoPipe]
    /\ thread' = [ch \in Channels |-> NoThread]
    /\ echo' = <<>>
    /\ actions' = None
    /\ plan_string' = None
    /\ parsed_plan' = None
    /\ final_plan' = None
    /\ result_log_messages' = <<>>
    /\ exc' = None
    /\ outcome' = None
    /\ calls' = <<>>
    /\ UNCHANGED <<options, args>>

\* with tempfile.TemporaryDirectory() as tmpdirname
MakeTmpDir ==
    /\ pc = "tmpdir"
    /\ \/ /\ tmpdir' = "exists"
          /\ pc' = "write_domain"
          /\ UNCHANGED <<exc, calls>>
       \/ Raise("TemporaryDirectory", <<"[Errno 28] No space left on device">>)
    /\ UNCHANGED <<options, args, invocation, timeout, cmdVars, child,
                   return_code, streamVars, planVars, outcome>>

\* task_writer.write_domain(domainfile)
WriteDomain ==
    /\ pc = "write_domain"
    /\ \/ /\ pc' = "write_problem"
          /\ Called("write_domain", "ok")
          /\ UNCHANGED <<exc, tmpdir>>
       \/ Raise("write_domain", <<"writer: unsupported domain">>)
    /\ UNCHANGED <<options, args, invocation, timeout, cmdVars, child,
                   return_code, streamVars, planVars, outcome>>

\* task_writer.write_problem(problemfile)
WriteProblem ==
    /\ pc = "write_problem"
    /\ \/ /\ pc' = "build_command"
          /\ Called("write_problem", "ok")
          /\ UNCHANGED <<exc, tmpdir>>
       \/ Raise("write_problem", <<"writer: unsupported problem">>)
    /\ UNCHANGED <<options, args, invocation, timeout, cmdVars, child,
                   return_code, streamVars, planVars, outcome>>

\* plan_dump_file = ...; pop '--save-plan'; command = [...]; command += ...
BuildCommand ==
    /\ pc = "build_command"
    /\ plan_dump_file' = Some(PlanDumpFile(args))
    /\ args' = PopSavePlan(args)
    /\ command' = Command(PlanDumpFile(args), args')
    /\ pc' = "popen"
    /\ UNCHANGED <<options, invocation, timeout, tmpdir, entry_args, child,
                   return_code, streamVars, planVars, exc, outcome, calls>>

\* process = subprocess.Popen(command, stdout=PIPE, stderr=PIPE)
Popen ==
    /\ pc = "popen"
    /\ \/ /\ child' = [state |-> "running", exitcode |-> 0, written |-> 0]
          /\ pipe' = [ch \in Channels |->
                        [buf |-> <<>>, wopen |-> TRUE, rclosed |-> FALSE, sent |-> <<>>]]
          /\ Called("Popen", "ok")
          /\ pc' = "start_stdout"
          /\ UNCHANGED <<exc, tmpdir>>
       \/ /\ Raise("Popen", <<"[Errno 2] No such file or directory: 'python'">>)
          /\ UNCHANGED <<child, pipe>>
    /\ UNCHANGED <<options, args, invocation, timeout, cmdVars, return_code,
                   thread, echo, planVars, outcome>>

\* mutant: the threads are created but start() is not called before the wait
StartThreadNever(ch) ==
    /\ pc = "start_" \o ch
    /\ pc' = IF ch = "stdout" THEN "start_stderr" ELSE "wait"
    /\ UNCHANGED <<options, args, invocation, timeout, tmpdir, cmdVars, child,
                   return_code, streamVars, planVars, exc, outcome, calls>>

\* stdout_thread.start(); stderr_thread.start()
StartThread(ch) ==
    /\ pc = "start_" \o ch
    /\ thread' = [thread EXCEPT ![ch].pc = "readline"]
    /\ pc' = IF ch = "stdout" THEN "start_stderr" ELSE "wait"
    /\ UNCHANGED <<options, args, invocation, timeout, tmpdir, cmdVars, child,
                   return_code, pipe, echo, planVars, exc, outcome, calls>>

\* return_code = process.wait(timeout=timeout): the child has terminated
WaitReturns ==
    /\ pc = "wait"
    /\ child.state = "terminated"
    /\ return_code' = Some(child.exitcode)
    /\ pc' = "join_stdout"
    /\ UNCHANGED <<options, args, invocation, timeout, tmpdir, cmdVars, child,
                   streamVars, planVars, exc, outcome, calls>>

\* mutant: the wait gives up on the child also when no deadline was given
WaitTimesOutAnyway ==
    /\ pc = "wait"
    /\ child.state # "terminated"
    /\ pc' = "kill"
    /\ UNCHANGED <<options, args, invocation, timeout, tmpdir, cmdVars, child,
                   return_code, streamVars, planVars, exc, outcome, calls>>

\* process.wait raises TimeoutExpired: the deadline passed, the child still ran
WaitTimesOut ==
    /\ pc = "wait"
    /\ timeout # None
    /\ child.state # "terminated"
    /\ pc' = "kill"
    /\ UNCHANGED <<options, args, invocation, timeout, tmpdir, cmdVars, child,
                   return_code, streamVars, planVars, exc, outcome, calls>>

\* Popen.kill(): polls the child and, if it has not terminated, sends SIGKILL
\* to it; it does not wait for the child to die
KillChild(c) == IF c.state = "running" THEN [c EXCEPT !.state = "signalled"] ELSE c

\* process.kill()
Kill ==
    /\ pc = "kill"
    /\ child' = KillChild(child)
    /\ Called("kill", "ok")
    /\ pc' = "return_timeout"
    /\ UNCHANGED <<options, args, invocation, timeout, tmpdir, cmdVars,
                   return_code, streamVars, planVars, exc, outcome>>

\* print("Planner timed out."); return PlanGenerationResult(TIMEOUT, ...)
ReturnTimeout ==
    /\ pc = "return_timeout"
    /\ outcome' = Some(TimeoutResult)
    /\ tmpdir' = TmpDirExit(tmpdir)
    /\ pc' = "returned"
    /\ UNCHANGED <<options, args, invocation, timeout, cmdVars, child,
                   return_code, streamVars, planVars, exc, calls>>

\* mutant: join() without a timeout, which returns only once the thread is done
JoinThreadForEver(ch) ==
    /\ pc = "join_" \o ch
    /\ thread[ch].pc = "done"
    /\ Called("join", ch)
    /\ pc' = IF ch = "stdout" THEN "join_stderr" ELSE "check_rc"
    /\ UNCHANGED <<options, args, invocation, timeout, tmpdir, cmdVars, child,
                   return_code, streamVars, planVars, exc, outcome>>

\* stdout_thread.join(timeout=1.0); stderr_thread.join(timeout=1.0): returns
\* when the thread has finished or the second has passed, whichever is first
JoinThread(ch) ==
    /\ pc = "join_" \o ch
    /\ Called("join", ch)
    /\ pc' = IF ch = "stdout" THEN "join_stderr" ELSE "check_rc"
    /\ UNCHANGED <<options, args, invocation, timeout, tmpdir, cmdVars, child,
                   return_code, streamVars, planVars, exc, outcome>>

\* mutant: a failed run of the planner is retried instead of reported
CheckReturnCodeRetry ==
    /\ pc = "check_rc"
    /\ pc' = IF return_code[1] # 0 THEN "popen" ELSE "open"
    /\ UNCHANGED <<options, args, invocation, timeout, tmpdir, cmdVars, child,
                   return_code, streamVars, planVars, exc, outcome, calls>>

\* mutant: the return code is not looked at, the plan file is read in any case
CheckReturnCodeIgnored ==
    /\ pc = "check_rc"
    /\ pc' = "open"
    /\ UNCHANGED <<options, args, invocation, timeout, tmpdir, cmdVars, child,
                   return_code, streamVars, planVars, exc, outcome, calls>>

\* if return_code != 0: ... return PlanGenerationResult(INTERNAL_ERROR, ...)
CheckReturnCode ==
    /\ pc = "check_rc"
    /\ IF return_code[1] # 0
       THEN /\ outcome' = Some(FailedResult(return_code[1]))
            /\ tmpdir' = TmpDirExit(tmpdir)
            /\ pc' = "returned"
       ELSE /\ pc' = "open"
            /\ UNCHANGED <<outcome, tmpdir>>
    /\ UNCHANGED <<options, args, invocation, timeout, cmdVars, child,
                   return_code, streamVars, planVars, exc, calls>>

\* with open(plan_dump_file, 'r') as f: actions = f.readlines()
ReadPlanFileFrom(files) ==
    /\ pc = "open"
    /\ \E f \in files :
         IF f = None
         THEN /\ Raise("open", <<"[Errno 2] No such file or directory">>)
              /\ UNCHANGED actions
         ELSE /\ actions' = f
              /\ Called("open", "ok")
              /\ pc' = "parse"
              /\ UNCHANGED <<exc, tmpdir>>
    /\ UNCHANGED <<options, args, invocation, timeout, cmdVars, child,
                   return_code, streamVars, plan_string, parsed_plan, final_plan,
                   result_log_messages, outcome>>

ReadPlanFile == ReadPlanFileFrom(PlanFiles)

\* final_plan = PDDLReader().parse_plan_string(problem, '\n'.join(map(...)))
ParsePlan ==
    /\ pc = "parse"
    /\ \E text \in {PlanString(actions[1])} :
       IF text = None
       THEN /\ Raise("split", <<"list index out of range">>)
            /\ UNCHANGED <<plan_string, parsed_plan, final_plan>>
       ELSE /\ plan_string' = text
            /\ \/ /\ parsed_plan' = Some(ParsePlanString(text[1]))
                  /\ final_plan' = parsed_plan'
                  /\ Called("parse_plan_string", "ok")
                  /\ pc' = "validate"
                  /\ UNCHANGED <<exc, tmpdir>>
               \/ /\ Raise("parse_plan_string", <<"parser: unknown action">>)
                  /\ UNCHANGED <<parsed_plan, final_plan>>
    /\ UNCHANGED <<options, args, invocation, timeout, cmdVars, child,
                   return_code, streamVars, actions, result_log_messages, outcome>>

\* plan_is_valid = self._validate_plan(problem, final_plan); if not plan_is_valid:
\* the warning log and the empty plan; then the with block is left
Validate ==
    /\ pc = "validate"
    /\ \E v \in ValidatorBehaviours :
         /\ Called("validate", v)
         /\ IF ~ValidatePlan(v)
            THEN /\ result_log_messages' = <<VALIDATION_WARNING>>
                 /\ final_plan' = Some(<<>>)
            ELSE /\ result_log_messages' = <<>>
                 /\ UNCHANGED final_plan
    /\ tmpdir' = TmpDirExit(tmpdir)
    /\ pc' = "return_solved"
    /\ UNCHANGED <<options, args, invocation, timeout, cmdVars, child,
                   return_code, streamVars, actions, plan_string, parsed_plan,
                   exc, outcome>>

\* return PlanGenerationResult(SOLVED_SATISFICING, final_plan, ...)
ReturnSolved ==
    /\ pc = "return_solved"
    /\ outcome' = Some(SolvedResult(final_plan, result_log_messages))
    /\ pc' = "returned"
    /\ UNCHANGED <<options, args, invocation, timeout, tmpdir, cmdVars, child,
                   return_code, streamVars, planVars, exc, calls>>

\* mutant: the handler is except OSError
CatchesOSError(e) == e.by \in {"TemporaryDirectory", "Popen", "open"}

\* which exceptions the top-level handler catches: except Exception
Catches(e) == TRUE

\* except Exception as e: ... return PlanGenerationResult(INTERNAL_ERROR, ...)
Except ==
    /\ pc = "except"
    /\ IF Catches(exc[1])
       THEN /\ outcome' = Some(ExceptResult(exc[1]))
            /\ pc' = "returned"
       ELSE /\ pc' = "escaped"
            /\ UNCHANGED outcome
    /\ UNCHANGED <<options, args, invocation, timeout, tmpdir, cmdVars, child,
                   return_code, streamVars, planVars, exc, calls>>

\* ----------------------------------------------------- the child process
ClosedForWriting(p) == [ch \in Channels |-> [p[ch] EXCEPT !.wopen = FALSE]]

\* the child writes one line to a pipe that has room and a reader
ChildWrites(ch, line) ==
    /\ child.state = "running"
    /\ child.written < MaxOut
    /\ ~pipe[ch].rclosed
    /\ Len(pipe[ch].buf) < PipeCap
    /\ pipe' = [pipe EXCEPT ![ch].buf = Append(@, line), ![ch].sent = Append(@, line)]
    /\ child' = [child EXCEPT !.written = @ + 1]
    /\ UNCHANGED <<options, args, invocation, timeout, pc, tmpdir, cmdVars,
                   return_code, thread, echo, planVars, exc, outcome, calls>>

\* the child writes to a pipe whose reading end was closed: the write fails at
\* once (EPIPE) and the line is lost
ChildWriteFails(ch) ==
    /\ child.state = "running"
    /\ child.written < MaxOut
    /\ pipe[ch].rclosed
    /\ child' = [child EXCEPT !.written = @ + 1]
    /\ UNCHANGED <<options, args, invocation, timeout, pc, tmpdir, cmdVars,
                   return_code, streamVars, planVars, exc, outcome, calls>>

\* the child terminates by itself with exit status c; its pipe ends close
ChildExits(c) ==
    /\ child.state = "running"
    /\ child' = [child EXCEPT !.state = "terminated", !.exitcode = c]
    /\ pipe' = ClosedForWriting(pipe)
    /\ UNCHANGED <<options, args, invocation, timeout, pc, tmpdir, cmdVars,
                   return_code, thread, echo, planVars, exc, outcome, calls>>

\* the SIGKILL sent by Popen.kill() takes effect
ChildDies ==
    /\ child.state = "signalled"
    /\ child' = [child EXCEPT !.state = "terminated", !.exitcode = 0 - SIGKILL]
    /\ pipe' = ClosedForWriting(pipe)
    /\ UNCHANGED <<options, args, invocation, timeout, pc, tmpdir, cmdVars,
                   return_code, thread, echo, planVars, exc, outcome, calls>>

\* ------------------------------------------------ _stream_output(pipe, prefix)
\* for line in iter(pipe.readline, b''): a line is taken off the pipe, decoded
\* and right-stripped; at end of file the loop ends
ReadLine(ch) ==
    /\ thread[ch].pc = "readline"
    /\ IF pipe[ch].buf # <<>>
       THEN LET line_str == RStrip(Decode(Head(pipe[ch].buf))) IN
            /\ pipe' = [pipe EXCEPT ![ch].buf = Tail(@)]
            /\ thread' = [thread EXCEPT
                            ![ch].pc = IF line_str # <<>> THEN "print" ELSE "readline",
                            ![ch].line_str = line_str]
       ELSE /\ ~pipe[ch].wopen
            /\ thread' = [thread EXCEPT ![ch].pc = "close"]
            /\ UNCHANGED pipe
    /\ UNCHANGED <<options, args, invocation, timeout, pc, tmpdir, cmdVars, child,
                   return_code, echo, planVars, exc, outcome, calls>>

\* what print(f"{prefix}{line_str}") writes first: the text
PrintedText(prefix, line_str) == prefix \o line_str

\* print(f"{prefix}{line_str}"), first write: sys.stdout.write(text)
PrintText(ch) ==
    /\ thread[ch].pc = "print"
    /\ echo' = Append(echo, [src |-> ch,
                             text |-> PrintedText(Prefix(ch), thread[ch].line_str)])
    /\ thread' = [thread EXCEPT ![ch].pc = "print_end"]
    /\ UNCHANGED <<options, args, invocation, timeout, pc, tmpdir, cmdVars, child,
                   return_code, pipe, planVars, exc, outcome, calls>>

\* print(...), second write: sys.stdout.write("\n"); then sys.stdout.flush()
PrintEnd(ch) ==
    /\ thread[ch].pc = "print_end"
    /\ echo' = Append(echo, [src |-> ch, text |-> <<"\n">>])
    /\ thread' = [thread EXCEPT ![ch].pc = "readline", ![ch].line_str = <<>>]
    /\ UNCHANGED <<options, args, invocation, timeout, pc, tmpdir, cmdVars, child,
                   return_code, pipe, planVars, exc, outcome, calls>>

\* except Exception: pass -- pipe.readline() raised (an I/O error on the pipe)
ReadRaises(ch) ==
    /\ thread[ch].pc = "readline"
    /\ thread' = [thread EXCEPT ![ch].pc = "close"]
    /\ UNCHANGED <<options, args, invocation, timeout, pc, tmpdir, cmdVars, child,
                   return_code, pipe, echo, planVars, exc, outcome, calls>>

\* mutant: no finally and no handler, the exception ends the thread
PrintRaisesEscapes(ch) ==
    /\ thread[ch].pc \in {"print", "print_end"}
    /\ thread' = [thread EXCEPT ![ch].pc = "raised", ![ch].line_str = <<>>]
    /\ UNCHANGED <<options, args, invocation, timeout, pc, tmpdir, cmdVars, child,
                   return_code, pipe, echo, planVars, exc, outcome, calls>>

\* except Exception: pass -- printing raised (sys.stdout closed or broken)
PrintRaises(ch) ==
    /\ thread[ch].pc \in {"print", "print_end"}
    /\ thread' = [thread EXCEPT ![ch].pc = "close", ![ch].line_str = <<>>]
    /\ UNCHANGED <<options, args, invocation, timeout, pc, tmpdir, cmdVars, child,
                   return_code, pipe, echo, planVars, exc, outcome, calls>>

\* finally: pipe.close()
ClosePipe(ch) ==
    /\ thread[ch].pc = "close"
    /\ pipe' = [pipe EXCEPT ![ch].rclosed = TRUE, ![ch].buf = <<>>]
    /\ thread' = [thread EXCEPT ![ch].pc = "done"]
    /\ UNCHANGED <<options, args, invocation, timeout, pc, tmpdir, cmdVars, child,
                   return_code, echo, planVars, exc, outcome, calls>>

\* ------------------------------------------------------------ the system
\* The steps of the thread that runs _solve.
SolveProgress ==
    \/ MakeTmpDir
    \/ WriteDomain
    \/ WriteProblem
    \/ BuildCommand
    \/ Popen
    \/ \E ch \in Channels : StartThread(ch)
    \/ WaitReturns
    \/ WaitTimesOut
    \/ Kill
    \/ ReturnTimeout
    \/ \E ch \in Channels : JoinThread(ch)
    \/ CheckReturnCode
    \/ ReadPlanFile
    \/ ParsePlan
    \/ Validate
    \/ ReturnSolved
    \/ Except

SolveStep ==
    \/ \E t \in {None, Some("deadline")} : Solve(t)
    \/ SolveProgress

\* _solve from call to return, beside a child that terminates or is killed and
\* two draining threads that see the pipes close. What the child prints does not
\* reach _solve (the joins do not read it), so here the child prints nothing.
Next ==
    \/ SolveStep
    \/ \E c \in ExitCodes : ChildExits(c)
    \/ ChildDies
    \/ \E ch \in Channels : ReadLine(ch)
    \/ \E ch \in Channels : ClosePipe(ch)

Spec == Init /\ [][Next]_vars

\* One _solve call seen from its pipes: the child prints lines on both channels
\* while the two draining threads echo them, up to the point where _solve has
\* waited for the child (or killed it), joined the threads and looked at the
\* return code. The plan file is not read here.
StreamInit == Init /\ options = <<>>

\* One call of _solve from call to return, with the thread that runs it
\* scheduled fairly: once called, _solve takes its next step if it can take one
\* for ever. Nothing is assumed of the child, which may never exit, nor of the
\* draining threads, which may never finish.
JoinNext ==
    \/ \E t \in {None, Some("deadline")} : Solve(t) /\ invocation = 0
    \/ SolveProgress
    \/ \E c \in ExitCodes : ChildExits(c)
    \/ ChildDies
    \/ \E ch \in Channels : ReadLine(ch)
    \/ \E ch \in Channels : ClosePipe(ch)

JoinSpec == StreamInit /\ [][JoinNext]_vars /\ WF_vars(SolveProgress)

\* the steps of the thread that runs the one _solve call
FirstSolveStep ==
    \/ \E t \in {None, Some("deadline")} : Solve(t) /\ invocation = 0
    \/ MakeTmpDir
    \/ WriteDomain
    \/ WriteProblem
    \/ BuildCommand
    \/ Popen
    \/ \E ch \in Channels : StartThread(ch)
    \/ WaitReturns
    \/ WaitTimesOut
    \/ Kill
    \/ ReturnTimeout
    \/ \E ch \in Channels : JoinThread(ch)
    \/ CheckReturnCode
    \/ Except

\* the steps of a draining thread that go as the code intends
DrainStep(ch) ==
    \/ ReadLine(ch)
    \/ PrintText(ch)
    \/ PrintEnd(ch)
    \/ ClosePipe(ch)

StreamNext ==
    \/ FirstSolveStep
    \/ \E ch \in Channels, line \in OutLines : ChildWrites(ch, line)
    \/ \E ch \in Channels : ChildWriteFails(ch)
    \/ \E c \in ExitCodes : ChildExits(c)
    \/ ChildDies
    \/ \E ch \in Channels : DrainStep(ch)
    \/ \E ch \in Channels : PrintRaises(ch)
    \/ \E ch \in Channels : ReadRaises(ch)

StreamSpec == StreamInit /\ [][StreamNext]_vars

\* The same call with a child that writes its MaxOut lines, on whichever channels,
\* and only then exits, under fair scheduling: the thread of _solve, the child
\* and each draining thread take a step they can take for ever. That printing
\* raises is never forced.
DrainLines == {<<"a", "\n">>, <<" ", "\n">>}

ChildStep ==
    \/ \E ch \in Channels, line \in DrainLines : ChildWrites(ch, line)
    \/ \E ch \in Channels : ChildWriteFails(ch)
    \/ \E c \in {0, 1} : ChildExits(c) /\ child.written = MaxOut
    \/ ChildDies

DrainNext ==
    \/ FirstSolveStep
    \/ ChildStep
    \/ \E ch \in Channels : DrainStep(ch)
    \/ \E ch \in Channels : PrintRaises(ch)
    \/ \E ch \in Channels : ReadRaises(ch)

DrainSpec ==
    /\ StreamInit
    /\ [][DrainNext]_vars
    /\ WF_vars(FirstSolveStep)
    /\ WF_vars(ChildStep)
    /\ \A ch \in Channels : WF_vars(DrainStep(ch))

\* The reading of a plan file of well-formed lines, from the point where _solve
\* has seen the child exit with 0 (no caller arguments, no timeout, the pipes
\* drained and closed) to its return.
ParseInit ==
    /\ options = <<>>
    /\ args = <<>>
    /\ invocation = 1
    /\ timeout = None
    /\ pc = "open"
    /\ tmpdir = "exists"
    /\ entry_args = <<>>
    /\ plan_dump_file = Some(PlanDumpFile(<<>>))
    /\ command = Command(PlanDumpFile(<<>>), <<>>)
    /\ child = [state |-> "terminated", exitcode |-> 0, written |-> 0]
    /\ return_code = Some(0)
    /\ pipe = [ch \in Channels |-> [buf |-> <<>>, wopen |-> FALSE, rclosed |-> TRUE, sent |-> <<>>]]
    /\ thread = [ch \in Channels |-> [pc |-> "done", line_str |-> <<>>]]
    /\ echo = <<>>
    /\ actions = None
    /\ plan_string = None
    /\ parsed_plan = None
    /\ final_plan = None
    /\ result_log_messages = <<>>
    /\ exc = None
    /\ outcome = None
    /\ calls = << <<"write_domain", "ok">>, <<"write_problem", "ok">>, <<"Popen", "ok">>,
                  <<"join", "stdout">>, <<"join", "stderr">> >>

ParseNext ==
    \/ ReadPlanFileFrom({Some(f) : f \in WellFormedFiles})
    \/ ParsePlan
    \/ Validate
    \/ ReturnSolved
    \/ Except

ParseSpec == ParseInit /\ [][ParseNext]_vars

\* ================================================================ claims
Returned == pc = "returned" /\ outcome # None
Result == outcome[1]

WasCalled(op, result) == \E i \in 1..Len(calls) : calls[i] = <<op, result>>
Invoked(op) == \E i \in 1..Len(calls) : calls[i][1] = op

\* the deadline passed with the child still running: wait raised TimeoutExpired
\* and the except branch ran process.kill()
TimedOut == WasCalled("kill", "ok")

\* C1 (as claimed): if the child does not exit before the deadline, _solve
\* returns TIMEOUT with no plan, and when it returns the child is no longer
\* running. The code sends SIGKILL and returns without waiting for the child,
\* so the last part fails.
C1_TimeoutChildGone ==
    (Returned /\ TimedOut) =>
        /\ Result.status = "TIMEOUT"
        /\ Result.plan = None
        /\ child.state = "terminated"

\* C2: for every exit code c # 0 reported by wait, the outcome is INTERNAL_ERROR
\* with no plan and one log message that contains the decimal text of c; the
\* message contains the segmentation-fault note exactly when c = -11.
C2_NonZeroExit ==
    (Returned /\ return_code # None /\ return_code[1] # 0) =>
        LET c == return_code[1] IN
        /\ Result.status = "INTERNAL_ERROR"
        /\ Result.plan = None
        /\ Len(Result.log_messages) = 1
        /\ Contains(Result.log_messages[1].message, IntStr(c))
        /\ (c = -11) <=>
             Contains(Result.log_messages[1].message,
                      <<" - The error might be a segmentation fault (SIGSEGV).">>)

C2_Witness ==
    /\ Returned
    /\ return_code = Some(-11)
    /\ Result.status = "INTERNAL_ERROR"
    /\ Len(Result.log_messages[1].message) = 6

\* what the validator did, when _validate_plan was called
NotValidated ==
    \E v \in {"INVALID", "UNKNOWN", "unavailable", "raises"} : WasCalled("validate", v)

TwoMoves == << <<"0", ":", " ", "a", "\n">>, <<"1", ":", " ", "b", " ", "c", "\n">> >>

\* C4: if the child exits with 0 and validation reports valid, the outcome is
\* SOLVED_SATISFICING, its plan is the action sequence parsed from the plan
\* file, in order, and it carries no log entry; the two-line file "0: a",
\* "1: b c" gives the two-action plan [a, b c].
C4_ValidPlanReturned ==
    (Returned /\ WasCalled("validate", "VALID")) =>
        /\ Result.status = "SOLVED_SATISFICING"
        /\ Result.plan = parsed_plan
        /\ Result.plan # None
        /\ Result.log_messages = <<>>
        /\ actions = Some(TwoMoves) => Result.plan = Some(<< <<"a">>, <<"b", " ", "c">> >>)

C4_Witness ==
    /\ Returned
    /\ WasCalled("validate", "VALID")
    /\ actions = Some(TwoMoves)
    /\ Len(Result.plan[1]) = 2

\* the text of a well-formed line "<i>: <text>": all that follows the first ': ',
\* up to the line end
TextOf(line) == SubSeq(line, Find(line, SEP) + Len(SEP), Len(line) - 1)

\* C5 (as claimed): for a plan file of n well-formed lines "<i>: <text_i>", the
\* text handed to the plan parser is the n texts in file order, each equal to
\* text_i, also when text_i contains ': '. The code keeps what lies between the
\* first and the second ': ', so a text that contains ': ' is cut.
C5_TextsKeptExactly ==
    (plan_string # None) =>
        plan_string[1] =
            Join(<<"\n">>, [i \in 1..Len(actions[1]) |-> TextOf(actions[1][i])])

\* C6: a _solve call ends with one outcome and no exception leaves it: whatever
\* the directory, the writer, Popen, open, the split or the parser raise, the
\* outcome is INTERNAL_ERROR with no plan and exactly one ERROR log entry whose
\* message is the exception's message.
C6_NoExceptionEscapes ==
    /\ pc # "escaped"
    /\ (outcome # None) <=> (pc = "returned")
    /\ (Returned /\ exc # None) =>
          /\ Result.status = "INTERNAL_ERROR"
          /\ Result.plan = None
          /\ Result.log_messages = <<[level |-> "ERROR", message |-> exc[1].msg]>>

C6_Witness ==
    /\ Returned
    /\ exc # None
    /\ exc[1].by = "write_problem"
    /\ Result.status = "INTERNAL_ERROR"

\* a plan file line with no ': ' in it (an empty line is one)
Malformed(line) == ~\E i \in 1..(Len(line) - 1) : line[i] = ":" /\ line[i + 1] = " "

BadPlanFile ==
    \/ WasCalled("open", "raises")
    \/ /\ actions # None
       /\ \E i \in 1..Len(actions[1]) : Malformed(actions[1][i])

\* C7: if the child exits with 0 but the plan file cannot be opened or has a
\* line without ': ' (an empty line included), the validator is never invoked
\* and the outcome is INTERNAL_ERROR with no plan and one ERROR log entry.
C7_BadPlanFile ==
    (return_code = Some(0) /\ BadPlanFile) =>
        /\ ~Invoked("validate")
        /\ Returned =>
              /\ Result.status = "INTERNAL_ERROR"
              /\ Result.plan = None
              /\ Len(Result.log_messages) = 1
              /\ Result.log_messages[1].level = "ERROR"

C7_Witness ==
    /\ Returned
    /\ return_code = Some(0)
    /\ actions = Some(<< <<"0", ":", " ", "a", "\n">>, <<"\n">> >>)
    /\ Result.status = "INTERNAL_ERROR"

IsSavePlan(item) == item[1] = "--save-plan"
IsOtherFlag(item) == item[1] # "--save-plan"

EchoTexts == {RStrip(Decode(l)) : l \in OutLines} \ {<<>>}

\* C9: whatever the interleaving of the two draining threads, each text they
\* echo carries the prefix of its own source: "ERROR: " before a line read from
\* the child's standard error, nothing before a line read from its standard
\* output.
C9_PrefixPerSource ==
    \A i \in 1..Len(echo) :
        \/ echo[i].text = <<"\n">>
        \/ /\ echo[i].src = "stdout"
           /\ echo[i].text \in EchoTexts
        \/ /\ echo[i].src = "stderr"
           /\ \E t \in EchoTexts :
                 echo[i].text = <<"E", "R", "R", "O", "R", ":", " ">> \o t

C9_Witness ==
    /\ Len(echo) = 4
    /\ echo[1] = [src |-> "stderr", text |-> <<"E", "R", "R", "O", "R", ":", " ", "b">>]
    /\ echo[2] = [src |-> "stdout", text |-> <<"a">>]
    /\ echo[3].src = "stdout"
    /\ echo[4].src = "stderr"

\* C10: when _solve returns, the temporary directory of the invocation no
\* longer exists, on every exit path (solved, timed out, non-zero exit, an
\* exception caught by the top-level handler).
C10_TmpDirRemoved ==
    (pc \in {"returned", "return_solved", "except", "escaped"}) => tmpdir # "exists"

C10_Witness ==
    /\ Returned
    /\ tmpdir = "removed"
    /\ TimedOut
    /\ child.state = "signalled"

\* the children started by the current _solve call
Launches == {i \in 1..Len(calls) : calls[i] = <<"Popen", "ok">>}

\* C11: a _solve call starts at most one child: after a timeout, a non-zero
\* exit, a plan file that cannot be read or parsed, or a failed validation, no
\* second child is started and the call ends with a terminal outcome.
C11_OneChild ==
    /\ Cardinality(Launches) <= 1
    /\ (TimedOut \/ exc # None \/ NotValidated
          \/ (return_code # None /\ return_code[1] # 0)) =>
          /\ pc \notin {"tmpdir", "write_domain", "write_problem", "build_command",
                        "popen", "start_stdout", "start_stderr", "wait"}
          /\ Returned =>
               Result.status \in {"TIMEOUT", "INTERNAL_ERROR", "SOLVED_SATISFICING"}

C11_Witness ==
    /\ Returned
    /\ return_code = Some(1)
    /\ Cardinality(Launches) = 1
    /\ Result.status = "INTERNAL_ERROR"

PipeFull(ch) == Len(pipe[ch].buf) >= PipeCap

\* C12: with pipes of bounded capacity, a child that writes its output on either
\* or both channels and then exits is never blocked for ever on a full pipe
\* while _solve waits for it: a full pipe gets room again, the child terminates
\* and the wait of _solve ends.
C12_NoPipeDeadlock ==
    /\ \A ch \in Channels : PipeFull(ch) ~> ~PipeFull(ch)
    /\ (child.state = "running") ~> (child.state = "terminated")
    /\ (pc = "wait") ~> (pc # "wait")

C12_Witness ==
    /\ pc = "wait"
    /\ timeout = None
    /\ child.state = "running"
    /\ child.written < MaxOut
    /\ PipeFull("stdout")
    /\ thread["stdout"].pc = "readline"

\* C13: once the child has exited within the deadline, _solve returns an
\* outcome, also when a draining thread never finishes: the two joins are bounded
\* by their timeout and nothing after them waits for the threads.
C13_ReturnsWithoutDrainers == (return_code # None) ~> Returned

C13_Witness ==
    /\ Returned
    /\ return_code = Some(0)
    /\ Result.status = "SOLVED_SATISFICING"
    /\ thread["stdout"].pc = "readline"
    /\ thread["stderr"].pc = "close"

\* C14 (as claimed): on the timeout path, after the child is killed, both
\* draining threads are joined before the TIMEOUT outcome, which carries exactly
\* one INFO log entry, is returned. The code returns from inside the except
\* branch, before the two joins, so on this path no thread is ever joined.
C14_TimeoutJoins ==
    (Returned /\ TimedOut) =>
        /\ Result.status = "TIMEOUT"
        /\ Len(Result.log_messages) = 1
        /\ Result.log_messages[1].level = "INFO"
        /\ WasCalled("join", "stdout")
        /\ WasCalled("join", "stderr")


\* C15 (as claimed): an echoed line reaches the caller's standard output as one
\* contiguous unit: between the text of a line (prefix included) and its line
\* terminator nothing written by the other draining thread is inserted. print
\* writes the text and the terminator in two writes with no lock around them,
\* so the other thread can write between the two.
C15_LinesContiguous ==
    \A ch \in Channels :
        thread[ch].pc = "print_end" =>
            /\ echo # <<>>
            /\ echo[Len(echo)] =
                  [src |-> ch, text |-> PrintedText(Prefix(ch), thread[ch].line_str)]


\* the texts echoed from a channel so far, in the order they were written out
EchoedTexts(ch) ==
    LET chunks == SelectSeq(echo, LAMBDA c : c.src = ch /\ c.text # <<"\n">>) IN
    [i \in 1..Len(chunks) |-> chunks[i].text]

\* what the lines the child wrote on a channel should be echoed as: each line
\* that is not empty once decoded and trimmed, with the prefix of the channel
ExpectedTexts(ch) ==
    LET kept == SelectSeq(pipe[ch].sent, LAMBDA l : RStrip(Decode(l)) # <<>>) IN
    [i \in 1..Len(kept) |-> PrintedText(Prefix(ch), RStrip(Decode(kept[i])))]

IsPrefixOf(s, t) == Len(s) <= Len(t) /\ SubSeq(t, 1, Len(s)) = s

\* C16 (as claimed): the lines the child writes on a channel that are not empty
\* after trimming are echoed exactly once each, in the order written, none that
\* is empty after trimming is echoed, and none is left out: when the draining
\* thread has stopped, all of them have been echoed. The code leaves the loop on
\* the first exception print raises (the try is around the loop), so the line
\* being printed and every later line of the channel are never echoed.
C16_EveryLineEchoed ==
    \A ch \in Channels :
        /\ IsPrefixOf(EchoedTexts(ch), ExpectedTexts(ch))
        /\ thread[ch].pc = "done" => EchoedTexts(ch) = ExpectedTexts(ch)


\* a draining thread that has left _stream_output, one way or another
Stopped(ch) ==
    thread[ch].pc \notin {"unstarted", "readline", "print", "print_end", "close"}

\* C17: a draining thread that has stopped, because its pipe was exhausted or
\* because reading or printing raised, has closed its pipe, and it ended by
\* returning: no exception left it.
C17_ClosedWhenDone ==
    \A ch \in Channels :
        Stopped(ch) => (pipe[ch].rclosed /\ thread[ch].pc = "done")

C17_Witness ==
    /\ thread["stdout"].pc = "done"
    /\ pipe["stdout"].rclosed
    /\ pipe["stdout"].wopen
    /\ pipe["stdout"].sent # <<>>
    /\ echo = <<>>
    /\ thread["stderr"].pc = "readline"


\* the three steps that interpret the child's result
PlanSteps == {"open", "parse_plan_string", "validate"}

\* C18: the plan file is read, the plan parser is called and the validator is
\* invoked only once the child was seen to exit with code 0, and in that order:
\* the parser only after the file was read, the validator only after the parser
\* succeeded. After a timeout or a non-zero exit none of the three happens.
C18_ReadParseValidate ==
    /\ (\E op \in PlanSteps : Invoked(op)) => return_code = Some(0)
    /\ (TimedOut \/ (return_code # None /\ return_code[1] # 0)) =>
            \A op \in PlanSteps : ~Invoked(op)
    /\ \A i \in 1..Len(calls) :
          /\ calls[i][1] = "parse_plan_string" =>
                \E j \in 1..(i - 1) : calls[j] = <<"open", "ok">>
          /\ calls[i][1] = "validate" =>
                \E j \in 1..(i - 1) : calls[j] = <<"parse_plan_string", "ok">>

C18_Witness ==
    /\ pc = "return_solved"
    /\ return_code = Some(0)
    /\ WasCalled("open", "ok")
    /\ WasCalled("parse_plan_string", "ok")
    /\ WasCalled("validate", "UNKNOWN")
    /\ invocation = 2


\* C19 (as claimed): _solve leaves the planner's configured options as they
\* were at construction, so every invocation on a planner constructed with a
\* caller-supplied --save-plan path, the second as well as the first, uses that
\* path as its plan file. The code pops --save-plan from self._args during the
\* first invocation, so from the second on the default path is used.
C19_OptionsKept ==
    /\ args = options
    /\ (DictHas(options, "--save-plan") /\ plan_dump_file # None) =>
            plan_dump_file = Some(DictGet(options, "--save-plan", <<>>))


\* C20: the outcome is TIMEOUT only when a deadline was given and the child had
\* not exited when it elapsed: the wait is given up only with a deadline and a
\* child that has not terminated, and TIMEOUT is returned only after that. With
\* no deadline _solve never kills the child and never returns TIMEOUT.
C20_TimeoutOnlyOnDeadline ==
    /\ [][(pc = "wait" /\ pc' = "kill") =>
            (timeout # None /\ child.state = "running")]_vars
    /\ []((Returned /\ Result.status = "TIMEOUT") => (timeout # None /\ TimedOut))
    /\ [](timeout = None =>
            (~TimedOut /\ pc # "kill" /\ child.state # "signalled"))

C20_Witness ==
    /\ Returned
    /\ timeout = None
    /\ return_code = Some(-11)
    /\ Result.status = "INTERNAL_ERROR"
    /\ invocation = 2
    /\ thread["stdout"].pc = "readline"


====
